---- MODULE Spec2Model ----
(***************************************************************************)
(* Rumba backup pipeline: scan -> plan (index fast path, blob dedup,      *)
(* bottom-up tree hashes) -> tape write (tar stream, offset accounting)   *)
(* -> catalog commit (blobs + index in one write transaction).            *)
(***************************************************************************)
EXTENDS Integers, Sequences, FiniteSets, TLC

(***************************************************************************)
(* Bounds of the model.                                                    *)
(***************************************************************************)
\* number of backup runs (invocations of main) explored
MaxRuns == 3
\* number of changes the environment makes to the source tree
MaxFsOps == 1
\* mtimes (whole seconds since the epoch) range over 1..MaxTime
MaxTime == 2
\* children of one directory that read_dir fails to enumerate
MaxErrs == 1
\* 512-byte blocks of the tar stream written to the child's stdin
MaxStream == 2
\* units the child writes to its stdout and stderr
MaxOutput == 3
\* units an OS pipe holds before a write to it blocks
PipeCapacity == 2

(***************************************************************************)
(* Program constants.                                                      *)
(***************************************************************************)
\* tape id main passes to both TapeWriter constructors
TapeId == 1
\* size of a tar header block, and the block size payloads are padded to
BlockSize == 512
\* length of the name field of a tar header
TarNameField == 100
\* number of hex characters of the hash used in the member name
HashPrefixLen == 16
\* mode of a file TreeEntry (0o100644)
FileMode == 33188
\* mode of a directory TreeEntry (0o040755)
DirMode == 16877

(***************************************************************************)
(* The source tree.  A path is the sequence of its components; the         *)
(* directory skeleton is fixed, files come, change and go.  One file sits  *)
(* in the root, one in a subdirectory and has a long name; the directory   *)
(* next to that one stays empty.  A dot file sits in the root and is left  *)
(* alone.                                                                  *)
(***************************************************************************)
Root == <<"r">>
Dirs == {<<"r">>, <<"r", "d">>, <<"r", "e">>}
Files == {<<"r", "a">>, <<"r", "d", "long">>}
Hidden == {<<"r", ".h">>}
AllFiles == Files \cup Hidden

\* byte length of a component name; "long" stands for a name of 84 bytes
NameLen(n) == CASE n = "long" -> 84 [] n = ".h" -> 2 [] OTHER -> 1

\* position of a name in ascending byte order (".h" < "a" < "d" < "e" < "l...")
NameRank(n) ==
    CASE n = ".h" -> 0 [] n = "a" -> 1 [] n = "d" -> 2 [] n = "e" -> 3
      [] n = "long" -> 4 [] OTHER -> 5

FileName(p) == p[Len(p)]
Parent(p) == SubSeq(p, 1, Len(p) - 1)

RECURSIVE PathLen(_)
\* length of the path string: "/" + name for every component
PathLen(p) == IF p = <<>> THEN 0
              ELSE PathLen(Parent(p)) + 1 + NameLen(FileName(p))

\* file contents are drawn from Contents; SizeOf gives their byte length
Contents == {1, 2, 3}
SizeOf(c) == CASE c = 1 -> 0 [] c = 2 -> 513 [] OTHER -> 513 + 512 * (c - 3)

\* what the file system lets the program do with a file: everything, no
\* stat (and so no open), stat but no open, open but no read
Perms == {"ok", "nostat", "noopen", "noread"}
NoFile == [content |-> 0, mtime |-> 0, perm |-> "ok"]
Present(f, p) == f[p].content # 0

(***************************************************************************)
(* Hashes.  BLAKE3 is modelled as collision free: the digest of an input   *)
(* is the input under a tag.                                               *)
(***************************************************************************)
NoHash == <<"none">>
HashBytes(c) == <<"blob", c>>
\* TreeEntry::compute_hash: name || mode || hash
EntryHash(e) == <<"entry", e.name, e.mode, e.hash>>
\* digest of the concatenated entry hashes, in the order given
HashTree(es) == <<"tree", [i \in 1..Len(es) |-> EntryHash(es[i])]>>
\* PathBuf::to_string_lossy: every name of the model is valid UTF-8, for
\* which the conversion yields the path string itself
PathKey(p) == p

(***************************************************************************)
(* Sorting helpers.                                                        *)
(***************************************************************************)
RECURSIVE InsertByName(_, _)
\* stable insertion of one entry into a sequence sorted by name
InsertByName(s, e) ==
    IF s = <<>> THEN <<e>>
    ELSE IF NameRank(e.name) < NameRank(Head(s).name) THEN <<e>> \o s
         ELSE <<Head(s)>> \o InsertByName(Tail(s), e)

RECURSIVE StableSortByName(_)
\* Vec::sort_by(|a, b| a.name.cmp(&b.name)) -- a stable sort
StableSortByName(s) ==
    IF s = <<>> THEN <<>>
    ELSE InsertByName(StableSortByName(SubSeq(s, 1, Len(s) - 1)), s[Len(s)])

\* the directory paths left in the order of HashMap::keys, unsorted
AnyOrders(D) ==
    {o \in [1..Cardinality(D) -> D] : \A d \in D : \E i \in DOMAIN o : o[i] = d}

\* the orders sort_by(descending length) can leave the directory paths in:
\* the sort is stable and starts from the arbitrary order of HashMap::keys
DescLenOrders(D) ==
    {o \in [1..Cardinality(D) -> D] :
        /\ \A d \in D : \E i \in DOMAIN o : o[i] = d
        /\ \A i, j \in DOMAIN o : i < j => PathLen(o[i]) >= PathLen(o[j])}

\* paths.sort_by(..) over the directories of the tree
DirOrders == DescLenOrders(Dirs)

(***************************************************************************)
(* Scanner: one ScannedDir per directory, children sorted by name.         *)
(***************************************************************************)
\* jwalk's is_hidden: the file name starts with "."
IsHidden(n) == n = ".h"

\* what the file system holds in directory d
DirContents(f, d) ==
    {[ok |-> TRUE, name |-> FileName(p), is_dir |-> FALSE, path |-> p] :
        p \in {q \in AllFiles : Parent(q) = d /\ Present(f, q)}}
    \cup
    {[ok |-> TRUE, name |-> FileName(p), is_dir |-> TRUE, path |-> p] :
        p \in {q \in Dirs : q # Root /\ Parent(q) = d}}

\* the children jwalk hands to process_read_dir: WalkDir::new(&self.root)
\* keeps jwalk's default skip_hidden(true), which drops hidden names
Children(f, d) == {c \in DirContents(f, d) : ~IsHidden(c.name)}

\* the comparator of children.sort_by: two Ok by file name, Ok before Err
ChildLess(a, b) ==
    \/ a.ok /\ b.ok /\ NameRank(a.name) < NameRank(b.name)
    \/ a.ok /\ ~b.ok

RECURSIVE InsertChild(_, _)
\* stable insertion of one child into a sorted sequence of children
InsertChild(s, c) ==
    IF s = <<>> THEN <<c>>
    ELSE IF ChildLess(c, Head(s)) THEN <<c>> \o s
         ELSE <<Head(s)>> \o InsertChild(Tail(s), c)

\* a callback that leaves the children in the order read_dir gave
SortChildrenNone(s) == s

RECURSIVE SortChildren(_)
\* children.sort_by(..) -- a stable sort
SortChildren(s) ==
    IF s = <<>> THEN <<>>
    ELSE InsertChild(SortChildren(SubSeq(s, 1, Len(s) - 1)), s[Len(s)])

IsOk(c) == c.ok

\* the callback of process_read_dir: sort, keep the Ok children, build the
\* ScannedDir that goes to the channel
ProcessReadDir(d, children) ==
    LET oks == SelectSeq(SortChildren(children), IsOk)
    IN [path |-> d,
        entries |-> [i \in 1..Len(oks) |->
                        [name |-> oks[i].name, is_dir |-> oks[i].is_dir,
                         path |-> oks[i].path]]]

RECURSIVE ReadDirOrder(_)
\* an order in which read_dir may return a set of children
ReadDirOrder(S) ==
    IF S = {} THEN <<>>
    ELSE LET c == CHOOSE x \in S : TRUE IN <<c>> \o ReadDirOrder(S \ {c})

ScanDir(f, d) == ProcessReadDir(d, ReadDirOrder(Children(f, d)))

(***************************************************************************)
(* Differ.                                                                 *)
(***************************************************************************)
\* a check_index that compares the mtime only
CheckIndexNoSize(idx, p, mtime, size) ==
    IF /\ PathKey(p) \in DOMAIN idx
       /\ idx[PathKey(p)].mtime = mtime
    THEN idx[PathKey(p)].hash
    ELSE NoHash

\* Differ::check_index
CheckIndex(idx, p, mtime, size) ==
    IF /\ PathKey(p) \in DOMAIN idx
       /\ idx[PathKey(p)].mtime = mtime
       /\ idx[PathKey(p)].size = size
    THEN idx[PathKey(p)].hash
    ELSE NoHash

\* get_blob's None
NoLocation == [tape_id |-> 0, offset |-> 0]

\* BackupDb::get_blob
GetBlob(bl, h) == IF h \in DOMAIN bl THEN bl[h] ELSE NoLocation

\* a Differ that reports every blob as new
ShouldBackupBlobAlways(bl, h) == TRUE

\* should_backup_blob: get_blob(hash)?.is_none()
ShouldBackupBlob(bl, h) == GetBlob(bl, h) = NoLocation

(***************************************************************************)
(* File system calls.                                                      *)
(***************************************************************************)
\* a stat that succeeds on every file that exists
MetadataAlways(f, p) ==
    IF Present(f, p)
    THEN [ok |-> TRUE, mtime |-> f[p].mtime, size |-> SizeOf(f[p].content)]
    ELSE [ok |-> FALSE, mtime |-> 0, size |-> 0]

\* std::fs::metadata
Metadata(f, p) ==
    IF Present(f, p) /\ f[p].perm # "nostat"
    THEN [ok |-> TRUE, mtime |-> f[p].mtime, size |-> SizeOf(f[p].content)]
    ELSE [ok |-> FALSE, mtime |-> 0, size |-> 0]

\* compute_file_hash: File::open, then read to the end
ComputeFileHash(f, p) ==
    IF Present(f, p) /\ f[p].perm = "ok"
    THEN [ok |-> TRUE, hash |-> HashBytes(f[p].content)]
    ELSE [ok |-> FALSE, hash |-> NoHash]

\* std::fs::read
ReadFile(f, p) ==
    IF Present(f, p) /\ f[p].perm = "ok"
    THEN [ok |-> TRUE, content |-> f[p].content]
    ELSE [ok |-> FALSE, content |-> 0]

(***************************************************************************)
(* Planner (Pipeline::run).                                                *)
(***************************************************************************)
\* a Planner that opens and hashes every file, indexed or not
FileHashAlwaysRead(f, idx, p, st) ==
    LET hr == ComputeFileHash(f, p)
    IN [ok |-> hr.ok, hash |-> hr.hash, read |-> TRUE]

\* if let Some(hash) = check_index(..)? { hash } else { compute_file_hash(..)? }
\* read tells whether the file was opened
FileHash(f, idx, p, st) ==
    LET hit == CheckIndex(idx, p, st.mtime, st.size)
    IN IF hit # NoHash THEN [ok |-> TRUE, hash |-> hit, read |-> FALSE]
       ELSE LET hr == ComputeFileHash(f, p)
            IN [ok |-> hr.ok, hash |-> hr.hash, read |-> TRUE]

\* the body of the loop over dir_info.entries for one entry.  probes keeps,
\* for every file whose metadata was read, the (mtime, size) handed to
\* check_index, its answer, whether the file was opened, and the content the
\* file had
PlanEntry(f, bl, idx, th, e, acc) ==
    IF e.is_dir
    THEN IF e.path \in DOMAIN th
         THEN [acc EXCEPT !.tree_entries =
                  Append(@, [name |-> e.name, mode |-> DirMode, hash |-> th[e.path]])]
         ELSE acc
    ELSE LET st == Metadata(f, e.path) IN
         IF ~st.ok THEN acc
         ELSE LET hr == FileHash(f, idx, e.path, st)
                  probe == [mtime |-> st.mtime, size |-> st.size,
                            hit |-> CheckIndex(idx, e.path, st.mtime, st.size),
                            read |-> hr.read, content |-> f[e.path].content]
                  seen == (e.path :> probe) @@ acc.probes
              IN IF ~hr.ok THEN [acc EXCEPT !.ok = FALSE, !.probes = seen]
                 ELSE LET needs_backup == ShouldBackupBlob(bl, hr.hash)
                          te == [name |-> e.name, mode |-> FileMode, hash |-> hr.hash]
                      IN [acc EXCEPT
                            !.new_files = IF needs_backup
                                          THEN Append(@, <<e.path, hr.hash>>) ELSE @,
                            !.total_size = IF needs_backup THEN @ + st.size ELSE @,
                            !.tree_entries = Append(@, te),
                            !.probes = seen]

RECURSIVE PlanEntries(_, _, _, _, _, _, _)
\* for entry in &dir_info.entries, from entry i on; stops at the first error
PlanEntries(f, bl, idx, th, es, i, acc) ==
    IF i > Len(es) \/ ~acc.ok THEN acc
    ELSE PlanEntries(f, bl, idx, th, es, i + 1, PlanEntry(f, bl, idx, th, es[i], acc))

\* a tree hash over the entries in the order they were produced
TreeHashUnsorted(tree_entries) == HashTree(tree_entries)

\* tree_entries.sort_by(name), then the hasher over entry.compute_hash()
TreeHashOf(tree_entries) == HashTree(StableSortByName(tree_entries))

\* the body of `for path in paths` for directory d, whose ScannedDir holds
\* entries: st carries new_files, total_size, the tree entries of every
\* directory done and tree_hashes
PlanDir(f, bl, idx, entries, d, st) ==
    LET r == PlanEntries(f, bl, idx, st.tree_hashes, entries, 1,
                         [new_files |-> st.new_files, total_size |-> st.total_size,
                          tree_entries |-> <<>>, ok |-> TRUE,
                          probes |-> st.probes])
        sorted == StableSortByName(r.tree_entries)
    IN [ok |-> r.ok,
        new_files |-> r.new_files,
        total_size |-> r.total_size,
        probes |-> r.probes,
        trees |-> IF r.ok THEN (d :> sorted) @@ st.trees ELSE st.trees,
        tree_hashes |-> IF r.ok
                        THEN (d :> TreeHashOf(r.tree_entries)) @@ st.tree_hashes
                        ELSE st.tree_hashes]

RECURSIVE PlanDirs(_, _, _, _, _, _)
\* for path in paths, from directory k on, every directory having been
\* scanned; stops at the first error
PlanDirs(f, bl, idx, paths, k, st) ==
    IF k > Len(paths) \/ ~st.ok THEN st
    ELSE PlanDirs(f, bl, idx, paths, k + 1,
                  PlanDir(f, bl, idx, ScanDir(f, paths[k]).entries, paths[k], st))

EmptyPlan == [ok |-> TRUE, new_files |-> <<>>, total_size |-> 0,
              probes |-> <<>>, trees |-> <<>>, tree_hashes |-> <<>>]

\* Pipeline::run, with the directory order the sort produced
PipelineRun(f, bl, idx, paths) == PlanDirs(f, bl, idx, paths, 1, EmptyPlan)

(***************************************************************************)
(* TapeWriter.                                                             *)
(***************************************************************************)
OutputModes == {"rustltfs", "tar", "other"}
NoWriter == [mode |-> "none", tape_id |-> 0, current_offset |-> 0]
EmptySink == [members |-> <<>>, len |-> 0]

\* n rounded up to whole blocks
Pad(n) == ((n + BlockSize - 1) \div BlockSize) * BlockSize

\* format!("{}_{}", filename, &hash_str[..16])
EntryNameLen(p) == NameLen(FileName(p)) + 1 + HashPrefixLen

\* bytes tar::Builder::append_data emits ahead of the member's own header:
\* a name that does not fit the header's name field goes out first as a GNU
\* long-name entry (a header block, then the name and a NUL, padded)
LongNameBytes(p) ==
    IF EntryNameLen(p) > TarNameField THEN BlockSize + Pad(EntryNameLen(p) + 1)
    ELSE 0

\* a block count that drops the partial last block
DataBlocksFloor(size) == size \div 512

\* let data_blocks = (size + 511) / 512
DataBlocks(size) == (size + 511) \div 512

RECURSIVE WritePlanLoop(_, _, _, _, _)
\* for (path, hash) in &plan.new_files, from entry i on.  fail_at is the
\* entry at which the sink refuses a write (0: the sink takes everything).
\* In the sink each member keeps the offset recorded for it (rec), the
\* position of its first byte (start) and of its own header (hdr).
WritePlanLoop(f, nf, i, fail_at, st) ==
    IF i > Len(nf) \/ ~st.ok THEN st
    ELSE LET path == nf[i][1]
             hash == nf[i][2]
             offset == st.current_offset
             rd == ReadFile(f, path)
             size == SizeOf(rd.content)
             data_blocks == DataBlocks(size)
             member == [path |-> path, hash |-> hash, content |-> rd.content,
                        size |-> size, rec |-> offset,
                        start |-> st.sink.len,
                        hdr |-> st.sink.len + LongNameBytes(path)]
         IN IF ~rd.ok \/ fail_at = i THEN [st EXCEPT !.ok = FALSE]
            ELSE WritePlanLoop(f, nf, i + 1, fail_at,
                   [ok |-> TRUE,
                    current_offset |-> offset + 512 + data_blocks * 512,
                    blob_locations |->
                        (hash :> [tape_id |-> st.tape_id, offset |-> offset])
                            @@ st.blob_locations,
                    tape_id |-> st.tape_id,
                    sink |-> [members |-> Append(st.sink.members, member),
                              len |-> member.hdr + BlockSize + Pad(size)]])

\* TapeWriter::write_plan: the loop, then Builder::finish (two zero blocks)
WritePlanResult(f, nf, w, snk, fail_at) ==
    LET r == WritePlanLoop(f, nf, 1, fail_at,
                [ok |-> TRUE, current_offset |-> w.current_offset,
                 blob_locations |-> <<>>, tape_id |-> w.tape_id, sink |-> snk])
    IN IF r.ok /\ fail_at = Len(nf) + 1 THEN [r EXCEPT !.ok = FALSE]
       ELSE IF r.ok THEN [r EXCEPT !.sink.len = @ + 2 * BlockSize]
       ELSE r

(***************************************************************************)
(* State.                                                                  *)
(***************************************************************************)
VARIABLES
    fs,             \* the source tree: file path -> content, mtime, perm
    blobs,          \* catalog table blobs: hash -> BlobLocation
    index,          \* catalog table index: path key -> IndexEntry
    pc,             \* where main is
    plan,           \* the BackupPlan (and the trees the Planner built)
    tw,             \* the TapeWriter
    sink,           \* what the TapeWriter's sink has received in this run
    blob_locations, \* the map write_plan returned
    txn,            \* the write transaction: its private copy of the tables
    todo,           \* keys of blob_locations the loop has not visited yet
    next_idx,       \* position of the index loop in plan.new_files
    result,         \* how the last run ended
    pre,            \* the catalog as it was when the run started
    blob_log,       \* committed insert_blob calls, in the order made
    runs,           \* runs started
    fsops,          \* changes made to the source tree
    done,           \* the tape steps of this run that have returned success
    quiet,          \* the tree has not changed since the last run started
    r2,             \* the run follows a committed run over an unchanged tree
    delta,          \* what has changed in the tree since the last run started
    since,          \* delta when this run started, if the run before committed
    listing,        \* Scanner: the children of the directory read last, as read
    sent,           \* Scanner: the ScannedDirs sent to the channel, in order
    failed,         \* Scanner: the directories read_dir could not open
    tx_alive,       \* whether some Sender of the channel is still alive
    chan,           \* the ScannedDirs sent and not yet received
    dir_map,        \* Pipeline::run: path -> ScannedDir received
    ppc,            \* where Pipeline::run is: "recv", "plan" or "done"
    paths,          \* Pipeline::run: the sorted directory paths
    path_i,         \* Pipeline::run: position of `for path in paths`
    tpc,            \* process sink: where the parent is in new / write_plan / finish
    child,          \* process sink: what the rustltfs child is doing
    stdin,          \* pipe to the child: units buffered, write end open
    outs,           \* the child's stdout and stderr pipes: units buffered
    to_write,       \* blocks of the tar stream write_plan has still to write
    out_left        \* units of output the child has still to write

main_vars == <<fs, blobs, index, pc, plan, tw, sink, blob_locations, txn, todo,
               next_idx, result, pre, blob_log, runs, fsops, done, quiet, r2,
               delta, since>>
scan_vars == <<listing, sent, failed, tx_alive, chan, dir_map, ppc, paths, path_i>>
pipe_vars == <<tpc, child, stdin, outs, to_write, out_left>>
vars == <<main_vars, scan_vars, pipe_vars>>

\* the pipes of the child the parent holds the read end of
OutPipes == {"stdout", "stderr"}

\* delta: nothing changed, one file's mtime was bumped and nothing else
\* changed (kind "touch"), or anything else (kind "other")
NoDelta == [kind |-> "none", path |-> <<>>]
NoTxn == [open |-> FALSE, blobs |-> <<>>, index |-> <<>>, log |-> <<>>]
NoPlan == [ok |-> FALSE, new_files |-> <<>>, total_size |-> 0,
           probes |-> <<>>, trees |-> <<>>, tree_hashes |-> <<>>]

\* trees a run can start from: every file absent or holding some content,
\* the dot file in place
InitTrees ==
    {f \in [AllFiles -> [content : Contents \cup {0}, mtime : {0, 1}, perm : {"ok"}]] :
        /\ \A p \in AllFiles : (f[p].content = 0) <=> (f[p].mtime = 0)
        /\ \A p \in Hidden : f[p].content = 3}

Init ==
    /\ fs \in InitTrees
    /\ blobs = <<>>
    /\ index = <<>>
    /\ pc = "idle"
    /\ plan = NoPlan
    /\ tw = NoWriter
    /\ sink = EmptySink
    /\ blob_locations = <<>>
    /\ txn = NoTxn
    /\ todo = {}
    /\ next_idx = 1
    /\ result = "none"
    /\ pre = [blobs |-> <<>>, index |-> <<>>]
    /\ blob_log = <<>>
    /\ runs = 0
    /\ fsops = 0
    /\ done = {}
    /\ quiet = FALSE
    /\ r2 = FALSE
    /\ delta = [kind |-> "other", path |-> <<>>]
    /\ since = [kind |-> "n/a", path |-> <<>>]
    /\ listing = <<>>
    /\ sent = <<>>
    /\ failed = {}
    /\ tx_alive = TRUE
    /\ chan = <<>>
    /\ dir_map = <<>>
    /\ ppc = "recv"
    /\ paths = <<>>
    /\ path_i = 1
    /\ tpc = "new"
    /\ child = "none"
    /\ stdin = [buf |-> 0, open |-> FALSE]
    /\ outs = [o \in OutPipes |-> 0]
    /\ to_write = 0
    /\ out_left = 0

(***************************************************************************)
(* main: one action per step of a backup run.                              *)
(***************************************************************************)
\* the run is over: main returns (or the process is gone)
EndRun(res) ==
    /\ pc' = "idle"
    /\ result' = res
    /\ txn' = NoTxn
    /\ todo' = {}
    /\ next_idx' = 1
    /\ tw' = NoWriter
    /\ sink' = EmptySink
    /\ blob_locations' = <<>>
    /\ done' = {}

\* a main that goes on with whatever plan came back
AfterPlanIgnoresError(p) ==
    IF p.new_files = <<>> THEN [pc |-> "idle", result |-> "nothing"]
    ELSE [pc |-> "planned", result |-> "running"]

\* main after pipeline.run()?: the error is returned, an empty plan ends the
\* run with "Nothing to backup", anything else goes on to the tape
AfterPlanNoReturn(p) ==
    IF ~p.ok THEN [pc |-> "idle", result |-> "HASH_IO"]
    ELSE [pc |-> "planned", result |-> "running"]

AfterPlan(p) ==
    IF ~p.ok THEN [pc |-> "idle", result |-> "HASH_IO"]
    ELSE IF p.new_files = <<>> THEN [pc |-> "idle", result |-> "nothing"]
    ELSE [pc |-> "planned", result |-> "running"]

\* main, steps 1 and 2: Pipeline::run, and the return when nothing is new
RunPipeline ==
    /\ pc = "idle"
    /\ runs < MaxRuns
    /\ \E o \in DirOrders :
         \E p \in {PipelineRun(fs, blobs, index, o)} :
         /\ plan' = IF p.ok THEN p ELSE [NoPlan EXCEPT !.probes = p.probes]
         /\ pc' = AfterPlan(p).pc
         /\ result' = AfterPlan(p).result
    /\ runs' = runs + 1
    /\ pre' = [blobs |-> blobs, index |-> index]
    /\ r2' = (result = "ok" /\ quiet)
    /\ quiet' = TRUE
    /\ since' = IF result = "ok" THEN delta ELSE [kind |-> "n/a", path |-> <<>>]
    /\ delta' = NoDelta
    /\ UNCHANGED <<fs, blobs, index, blob_log, fsops, tw, sink, blob_locations,
                   txn, todo, next_idx, done>>
    /\ UNCHANGED <<scan_vars, pipe_vars>>

\* main, step 3: TapeWriter::new_rustltfs / new_tar_file by output mode
NewTapeWriter ==
    /\ pc = "planned"
    /\ \E mode \in OutputModes, created \in BOOLEAN :
         IF mode = "other"
         THEN EndRun("CONFIG_INVALID")
         ELSE IF ~created
         THEN EndRun("TAPE_IO")
         ELSE /\ tw' = [mode |-> mode, tape_id |-> TapeId, current_offset |-> 0]
              /\ pc' = "writer"
              /\ UNCHANGED <<result, txn, todo, next_idx, sink, blob_locations, done>>
    /\ UNCHANGED <<fs, blobs, index, plan, pre, blob_log, runs, fsops, quiet, r2, delta, since>>
    /\ UNCHANGED <<scan_vars, pipe_vars>>

\* main, step 4: tape_writer.write_plan(&plan)?
WritePlan ==
    /\ pc = "writer"
    /\ \E fail_at \in 0..(Len(plan.new_files) + 1) :
         \E r \in {WritePlanResult(fs, plan.new_files, tw, sink, fail_at)} :
         IF r.ok
         THEN /\ sink' = r.sink
              /\ tw' = [tw EXCEPT !.current_offset = r.current_offset]
              /\ blob_locations' = r.blob_locations
              /\ pc' = "written"
              /\ done' = done \cup {"write_plan"}
              /\ UNCHANGED <<result, txn, todo, next_idx>>
         ELSE EndRun("TAPE_IO")
    /\ UNCHANGED <<fs, blobs, index, plan, pre, blob_log, runs, fsops, quiet, r2, delta, since>>
    /\ UNCHANGED <<scan_vars, pipe_vars>>

\* a finish whose failure main does not return on
FinishIgnoringStatus ==
    /\ pc = "written"
    /\ \E success \in BOOLEAN :
         /\ pc' = "finished"
         /\ tw' = NoWriter
         /\ done' = IF success THEN done \cup {"finish"} ELSE done
         /\ UNCHANGED <<result, txn, todo, next_idx, sink, blob_locations>>
    /\ UNCHANGED <<fs, blobs, index, plan, pre, blob_log, runs, fsops, quiet, r2, delta, since>>
    /\ UNCHANGED <<scan_vars, pipe_vars>>

\* main, step 4: tape_writer.finish()?
Finish ==
    /\ pc = "written"
    /\ \E success \in BOOLEAN :
         IF success
         THEN /\ pc' = "finished"
              /\ tw' = NoWriter
              /\ done' = done \cup {"finish"}
              /\ UNCHANGED <<result, txn, todo, next_idx, sink, blob_locations>>
         ELSE EndRun(IF tw.mode = "rustltfs" THEN "TAPE_REMOTE_FAILED" ELSE "TAPE_IO")
    /\ UNCHANGED <<fs, blobs, index, plan, pre, blob_log, runs, fsops, quiet, r2, delta, since>>
    /\ UNCHANGED <<scan_vars, pipe_vars>>

\* main, step 5: db.begin_write()
BeginWrite ==
    /\ pc = "finished"
    /\ pc' = "txn"
    /\ txn' = [open |-> TRUE, blobs |-> blobs, index |-> index, log |-> <<>>]
    /\ todo' = DOMAIN blob_locations
    /\ next_idx' = 1
    /\ UNCHANGED <<fs, blobs, index, plan, tw, sink, blob_locations, result, pre,
                   blob_log, runs, fsops, done, quiet, r2, delta, since>>
    /\ UNCHANGED <<scan_vars, pipe_vars>>

\* an insert_blob that writes no row
InsertBlobRowDropped(t, h, loc) == t

\* BackupDb::insert_blob: table.insert replaces the value of an existing key
InsertBlobRow(t, h, loc) == [t EXCEPT !.blobs = (h :> loc) @@ @]

\* the member of the sink written at a recorded offset
MemberAt(snk, off) ==
    snk.members[CHOOSE i \in DOMAIN snk.members : snk.members[i].rec = off]

\* main, step 5.1: one turn of the loop over blob_locations (a HashMap:
\* the order of the turns is arbitrary).  The transaction's log keeps the
\* calls in the order made, with the size of the blob written there.
InsertBlob ==
    /\ pc = "txn"
    /\ todo # {}
    /\ \E h \in todo :
         /\ txn' = [InsertBlobRow(txn, h, blob_locations[h]) EXCEPT !.log =
                        Append(@, [hash |-> h,
                                   tape_id |-> blob_locations[h].tape_id,
                                   offset |-> blob_locations[h].offset,
                                   size |-> MemberAt(sink, blob_locations[h].offset).size])]
         /\ todo' = todo \ {h}
    /\ UNCHANGED <<fs, blobs, index, pc, plan, tw, sink, blob_locations, next_idx,
                   result, pre, blob_log, runs, fsops, done, quiet, r2, delta, since>>
    /\ UNCHANGED <<scan_vars, pipe_vars>>

\* BackupDb::insert_index
InsertIndexRow(t, key, entry) == [t EXCEPT !.index = (key :> entry) @@ @]

\* main, step 5.2: one turn of the loop over plan.new_files
InsertIndex ==
    /\ pc = "txn"
    /\ todo = {}
    /\ next_idx <= Len(plan.new_files)
    /\ LET path == plan.new_files[next_idx][1]
           hash == plan.new_files[next_idx][2]
           md == Metadata(fs, path)
       IN txn' = IF md.ok
                 THEN InsertIndexRow(txn, PathKey(path),
                        [mtime |-> md.mtime, size |-> md.size, hash |-> hash])
                 ELSE txn
    /\ next_idx' = next_idx + 1
    /\ UNCHANGED <<fs, blobs, index, pc, plan, tw, sink, blob_locations, todo,
                   result, pre, blob_log, runs, fsops, done, quiet, r2, delta, since>>
    /\ UNCHANGED <<scan_vars, pipe_vars>>

\* a commit that makes only the index rows durable
CommitIndexOnly ==
    /\ pc = "txn"
    /\ todo = {}
    /\ next_idx > Len(plan.new_files)
    /\ blobs' = blobs
    /\ index' = txn.index
    /\ blob_log' = blob_log
    /\ EndRun("ok")
    /\ UNCHANGED <<fs, plan, pre, runs, fsops, quiet, r2, delta, since>>
    /\ UNCHANGED <<scan_vars, pipe_vars>>

\* main: write_txn.commit()
Commit ==
    /\ pc = "txn"
    /\ todo = {}
    /\ next_idx > Len(plan.new_files)
    /\ blobs' = txn.blobs
    /\ index' = txn.index
    /\ blob_log' = blob_log \o txn.log
    /\ EndRun("ok")
    /\ UNCHANGED <<fs, plan, pre, runs, fsops, quiet, r2, delta, since>>
    /\ UNCHANGED <<scan_vars, pipe_vars>>

\* a catalog call of step 5 returns an error: the transaction is dropped
CatalogError ==
    /\ pc \in {"finished", "txn"}
    /\ EndRun("CATALOG_IO")
    /\ UNCHANGED <<fs, blobs, index, plan, pre, blob_log, runs, fsops, quiet, r2, delta, since>>
    /\ UNCHANGED <<scan_vars, pipe_vars>>

\* how a kill is told apart afterwards: had the transaction made any put?
KillResult ==
    IF txn.open /\ (txn.blobs # blobs \/ txn.index # index)
    THEN "killed_with_puts" ELSE "killed"

\* a catalog whose puts are durable one by one
KillKeepsPuts ==
    /\ pc # "idle"
    /\ blobs' = IF txn.open THEN txn.blobs ELSE blobs
    /\ index' = IF txn.open THEN txn.index ELSE index
    /\ EndRun(KillResult)
    /\ UNCHANGED <<fs, plan, pre, blob_log, runs, fsops, quiet, r2, delta, since>>
    /\ UNCHANGED <<scan_vars, pipe_vars>>

\* the process is killed in the middle of a run; a write transaction that
\* was never committed is gone with it
Kill ==
    /\ pc # "idle"
    /\ EndRun(KillResult)
    /\ UNCHANGED <<fs, blobs, index, plan, pre, blob_log, runs, fsops, quiet, r2,
                   delta, since>>
    /\ UNCHANGED <<scan_vars, pipe_vars>>

(***************************************************************************)
(* The environment changes the source tree, at any time.                   *)
(***************************************************************************)
FsChange(p, st) ==
    /\ fsops < MaxFsOps
    /\ st # fs[p]
    /\ fs' = [fs EXCEPT ![p] = st]
    /\ fsops' = fsops + 1
    /\ quiet' = FALSE
    /\ delta' = IF /\ delta = NoDelta
                   /\ Present(fs, p)
                   /\ st.content = fs[p].content
                   /\ st.perm = fs[p].perm
                   /\ st.mtime > fs[p].mtime
                THEN [kind |-> "touch", path |-> p]
                ELSE [kind |-> "other", path |-> <<>>]
    /\ UNCHANGED <<blobs, index, pc, plan, tw, sink, blob_locations, txn, todo,
                   next_idx, result, pre, blob_log, runs, done, r2, since>>
    /\ UNCHANGED <<scan_vars, pipe_vars>>

\* a file is created or rewritten; its mtime (in seconds) may stay the same
WriteFile ==
    \E p \in Files, c \in Contents, t \in 1..MaxTime :
        /\ t >= fs[p].mtime
        /\ FsChange(p, [content |-> c, mtime |-> t, perm |-> fs[p].perm])

\* a file is removed
DeleteFile ==
    \E p \in Files :
        /\ Present(fs, p)
        /\ FsChange(p, NoFile)

\* a file becomes unreadable in some way, or readable again
SetPerm ==
    \E p \in Files, m \in Perms :
        /\ Present(fs, p)
        /\ FsChange(p, [fs[p] EXCEPT !.perm = m])

Next ==
    \/ RunPipeline
    \/ NewTapeWriter
    \/ WritePlan
    \/ Finish
    \/ BeginWrite
    \/ InsertBlob
    \/ InsertIndex
    \/ Commit
    \/ CatalogError
    \/ Kill
    \/ WriteFile
    \/ DeleteFile
    \/ SetPerm

Spec == Init /\ [][Next]_vars

(***************************************************************************)
(* The Scanner on its own: a walk of the tree.  jwalk reads a directory    *)
(* once its parent has been read, directories next to each other in any    *)
(* order; read_dir returns the children in any order and may fail on some. *)
(***************************************************************************)
\* a child that read_dir could not enumerate (an Err in children)
ErrChild == [ok |-> FALSE, name |-> "", is_dir |-> FALSE, path |-> <<>>]

\* the children vectors process_read_dir can be handed for directory d
Listings(f, d) ==
    LET C == Children(f, d)
    IN UNION {{s \in [1..(Cardinality(C) + k) -> C \cup {ErrChild}] :
                    \A c \in C : Cardinality({i \in DOMAIN s : s[i] = c}) = 1} :
              k \in 0..MaxErrs}

\* the directories whose ScannedDir has been sent
SentPaths == {sent[k].path : k \in DOMAIN sent}

\* jwalk reads directory d next: the root, or a directory listed as an Ok
\* child of a directory already read
ToRead(d) ==
    /\ d \notin SentPaths \cup failed
    /\ d = Root \/ Parent(d) \in SentPaths

\* jwalk reads directory d and process_read_dir runs on its children: sort,
\* collect, tx.send (std::sync::mpsc::Sender::send never waits)
ScanReadDir(d) ==
    /\ tx_alive
    /\ ToRead(d)
    /\ \E l \in Listings(fs, d) :
         /\ listing' = l
         /\ sent' = Append(sent, ProcessReadDir(d, l))
         /\ chan' = Append(chan, ProcessReadDir(d, l))
    /\ UNCHANGED <<failed, tx_alive, dir_map, ppc, paths, path_i>>
    /\ UNCHANGED <<main_vars, pipe_vars>>

\* read_dir fails on directory d: jwalk yields the error to the iterator,
\* which for_each(|_| {}) drops; the callback does not run and nothing
\* below d is visited
ScanReadDirFails(d) ==
    /\ tx_alive
    /\ ToRead(d)
    /\ failed' = failed \cup {d}
    /\ UNCHANGED <<listing, sent, tx_alive, chan, dir_map, ppc, paths, path_i>>
    /\ UNCHANGED <<main_vars, pipe_vars>>

\* the walk is over: scan_parallel returns Ok(()) and the scanner thread
\* ends, which drops the callback's Sender and the thread's own
ScanReturn ==
    /\ tx_alive
    /\ \A d \in Dirs : ~ToRead(d)
    /\ tx_alive' = FALSE
    /\ UNCHANGED <<listing, sent, failed, chan, dir_map, ppc, paths, path_i>>
    /\ UNCHANGED <<main_vars, pipe_vars>>

ScannerNext ==
    \/ \E d \in Dirs : ScanReadDir(d)
    \/ \E d \in Dirs : ScanReadDirFails(d)
    \/ ScanReturn

\* for scanned_dir in rx { dir_map.insert(scanned_dir.path.clone(), ..) }
Recv ==
    /\ ppc = "recv"
    /\ chan # <<>>
    /\ dir_map' = (Head(chan).path :> Head(chan)) @@ dir_map
    /\ chan' = Tail(chan)
    /\ UNCHANGED <<listing, sent, failed, tx_alive, ppc, paths, path_i>>
    /\ UNCHANGED <<main_vars, pipe_vars>>

\* a receive loop that ends as soon as the channel is found empty
RecvClosedEarly ==
    /\ ppc = "recv"
    /\ chan = <<>>
    /\ paths' \in DescLenOrders(DOMAIN dir_map)
    /\ path_i' = 1
    /\ plan' = EmptyPlan
    /\ ppc' = "plan"
    /\ UNCHANGED <<listing, sent, failed, tx_alive, chan, dir_map>>
    /\ UNCHANGED <<fs, blobs, index, pc, tw, sink, blob_locations, txn, todo,
                   next_idx, result, pre, blob_log, runs, fsops, done, quiet,
                   r2, delta, since>>
    /\ UNCHANGED pipe_vars

\* rx's iterator ends (channel empty, every Sender dropped); the keys of
\* dir_map are collected and sorted by descending length
RecvClosed ==
    /\ ppc = "recv"
    /\ chan = <<>>
    /\ ~tx_alive
    /\ paths' \in DescLenOrders(DOMAIN dir_map)
    /\ path_i' = 1
    /\ plan' = EmptyPlan
    /\ ppc' = "plan"
    /\ UNCHANGED <<listing, sent, failed, tx_alive, chan, dir_map>>
    /\ UNCHANGED <<fs, blobs, index, pc, tw, sink, blob_locations, txn, todo,
                   next_idx, result, pre, blob_log, runs, fsops, done, quiet,
                   r2, delta, since>>
    /\ UNCHANGED pipe_vars

\* one round of `for path in paths`
PlanPath ==
    /\ ppc = "plan"
    /\ path_i <= Len(paths)
    /\ plan.ok
    /\ plan' = PlanDir(fs, blobs, index, dir_map[paths[path_i]].entries,
                       paths[path_i], plan)
    /\ path_i' = path_i + 1
    /\ UNCHANGED <<listing, sent, failed, tx_alive, chan, dir_map, ppc, paths>>
    /\ UNCHANGED <<fs, blobs, index, pc, tw, sink, blob_locations, txn, todo,
                   next_idx, result, pre, blob_log, runs, fsops, done, quiet,
                   r2, delta, since>>
    /\ UNCHANGED pipe_vars

\* Pipeline::run returns (the plan, or the error of a file read), and main
\* goes on as after any run of the pipeline
PlanReturn ==
    /\ ppc = "plan"
    /\ path_i > Len(paths) \/ ~plan.ok
    /\ ppc' = "done"
    /\ pc' = AfterPlan(plan).pc
    /\ result' = AfterPlan(plan).result
    /\ UNCHANGED <<listing, sent, failed, tx_alive, chan, dir_map, paths, path_i>>
    /\ UNCHANGED <<fs, blobs, index, plan, tw, sink, blob_locations, txn, todo,
                   next_idx, pre, blob_log, runs, fsops, done, quiet,
                   r2, delta, since>>
    /\ UNCHANGED pipe_vars

\* for scanned_dir in rx
ReceiveLoop == Recv \/ RecvClosed

PlannerNext ==
    \/ ReceiveLoop
    \/ PlanPath
    \/ PlanReturn

ScanNext == ScannerNext \/ PlannerNext

SpecScan == Init /\ [][ScanNext]_vars

\* the scanner thread is scheduled, and so is the main thread while it is in
\* its receive loop
SpecScanFair == SpecScan /\ WF_vars(ScannerNext) /\ WF_vars(ReceiveLoop)

(***************************************************************************)
(* The process sink: the parent writes the tar stream into the stdin pipe  *)
(* of the rustltfs child, whose stdout and stderr are pipes as well.  The  *)
(* child reads its stdin until EOF and then exits, and writes any amount   *)
(* of output on the way.                                                   *)
(***************************************************************************)
\* TapeWriter::new_rustltfs: the child is spawned with three pipes.  The
\* length of the stream to come and the output the child will make are
\* fixed here.
Spawn ==
    /\ tpc = "new"
    /\ \E n \in 0..MaxStream, o \in 0..MaxOutput :
         /\ to_write' = n
         /\ out_left' = o
    /\ child' = "read"
    /\ stdin' = [buf |-> 0, open |-> TRUE]
    /\ tpc' = "write_plan"
    /\ UNCHANGED <<outs>>
    /\ UNCHANGED <<main_vars, scan_vars>>

\* write_plan: the tar Builder writes one block to child.stdin; the write
\* waits while the pipe is full
WriteBlock ==
    /\ tpc = "write_plan"
    /\ to_write > 0
    /\ stdin.buf < PipeCapacity
    /\ stdin' = [stdin EXCEPT !.buf = @ + 1]
    /\ to_write' = to_write - 1
    /\ UNCHANGED <<tpc, child, outs, out_left>>
    /\ UNCHANGED <<main_vars, scan_vars>>

\* write_plan returns: the Builder and the ChildStdin it owns are dropped,
\* which closes the pipe; main goes on to finish, which waits for the child
WritePlanReturns ==
    /\ tpc = "write_plan"
    /\ to_write = 0
    /\ stdin' = [stdin EXCEPT !.open = FALSE]
    /\ tpc' = "finish"
    /\ UNCHANGED <<child, outs, to_write, out_left>>
    /\ UNCHANGED <<main_vars, scan_vars>>

\* finish: child.wait() returns once the child has exited
WaitReturns ==
    /\ tpc = "finish"
    /\ child = "exited"
    /\ tpc' = "returned"
    /\ UNCHANGED <<child, stdin, outs, to_write, out_left>>
    /\ UNCHANGED <<main_vars, scan_vars>>

ParentNext == Spawn \/ WriteBlock \/ WritePlanReturns \/ WaitReturns

\* the child reads one block from its stdin
ChildRead ==
    /\ child = "read"
    /\ stdin.buf > 0
    /\ stdin' = [stdin EXCEPT !.buf = @ - 1]
    /\ UNCHANGED <<tpc, child, outs, to_write, out_left>>
    /\ UNCHANGED <<main_vars, scan_vars>>

\* the child turns to writing one unit of output to stdout or stderr
ChildOutput(o) ==
    /\ child = "read"
    /\ out_left > 0
    /\ child' = o
    /\ UNCHANGED <<tpc, stdin, outs, to_write, out_left>>
    /\ UNCHANGED <<main_vars, scan_vars>>

\* the child's write goes through when the pipe has room; nobody reads the
\* pipe (the parent never touches child.stdout or child.stderr)
ChildWrite(o) ==
    /\ child = o
    /\ outs[o] < PipeCapacity
    /\ outs' = [outs EXCEPT ![o] = @ + 1]
    /\ out_left' = out_left - 1
    /\ child' = "read"
    /\ UNCHANGED <<tpc, stdin, to_write>>
    /\ UNCHANGED <<main_vars, scan_vars>>

\* the child reads EOF on its stdin and exits
ChildExit ==
    /\ child = "read"
    /\ stdin.buf = 0
    /\ ~stdin.open
    /\ child' = "exited"
    /\ UNCHANGED <<tpc, stdin, outs, to_write, out_left>>
    /\ UNCHANGED <<main_vars, scan_vars>>

ChildNext ==
    \/ ChildRead
    \/ \E o \in OutPipes : ChildOutput(o)
    \/ \E o \in OutPipes : ChildWrite(o)
    \/ ChildExit

PipeNext == ParentNext \/ ChildNext

SpecPipe == Init /\ [][PipeNext]_vars

\* parent and child are two processes, each scheduled
SpecPipeFair == SpecPipe /\ WF_vars(ParentNext) /\ WF_vars(ChildNext)

(***************************************************************************)
(* Properties.                                                             *)
(***************************************************************************)
NewFileHashes(pl) == {pl.new_files[i][2] : i \in DOMAIN pl.new_files}
FileEntries(pl) ==
    UNION {{pl.trees[d][i] : i \in DOMAIN pl.trees[d]} : d \in DOMAIN pl.trees}
FileEntryHashes(pl) == {e.hash : e \in {x \in FileEntries(pl) : x.mode = FileMode}}
CatalogAsBefore == blobs = pre.blobs /\ index = pre.index

\* C1: the write transaction is open only after write_plan and finish have
\* both returned success, and a run that ended on a tape error (TAPE_IO from
\* either call, TAPE_REMOTE_FAILED from the child) has left blobs and index
\* exactly as they were when it started.
C1_CommitOnlyAfterTape ==
    /\ txn.open => {"write_plan", "finish"} \subseteq done
    /\ result \in {"TAPE_IO", "TAPE_REMOTE_FAILED"} => pc = "idle" /\ CatalogAsBefore

\* a run over a non-empty catalog has ended because the child exited non-zero
C1_Witness == result = "TAPE_REMOTE_FAILED" /\ blobs # <<>> /\ pc = "idle"

\* C2: once a run has committed, blobs has a row for every hash of its
\* new_files and for every hash of a file-mode TreeEntry it emitted.
C2_BlobsCoverRun ==
    result = "ok" =>
        /\ \A h \in NewFileHashes(plan) : h \in DOMAIN blobs
        /\ \A h \in FileEntryHashes(plan) : h \in DOMAIN blobs

\* a committed run one of whose file entries took its hash from the index
\* (the file is in the index with its current stat, and is not in new_files)
C2_Witness ==
    /\ result = "ok"
    /\ \E p \in Files :
         /\ Metadata(fs, p).ok
         /\ CheckIndex(pre.index, p, Metadata(fs, p).mtime, Metadata(fs, p).size) # NoHash
         /\ \A i \in DOMAIN plan.new_files : plan.new_files[i][1] # p
         /\ CheckIndex(pre.index, p, Metadata(fs, p).mtime, Metadata(fs, p).size)
                \in FileEntryHashes(plan)
    /\ quiet

\* C3: every index row's hash has a blobs row, in every reachable state.
C3_IndexHasBlob == \A k \in DOMAIN index : index[k].hash \in DOMAIN blobs

\* the index has rows and the last run was killed
C3_Witness == DOMAIN index # {} /\ result = "killed" /\ runs >= 2

\* C4: a run that follows a committed run, over a tree unchanged since that
\* run began, returns a plan with no new_files and total_size 0.
C4_SecondRunEmpty ==
    r2 => plan.ok /\ plan.new_files = <<>> /\ plan.total_size = 0

\* such a second run has taken place, over a tree that holds files
C4_Witness == r2 /\ result = "nothing" /\ \E p \in Files : Present(fs, p)

C6_OneBlobPerHash ==
    pc = "written" =>
        \A h \in DOMAIN blob_locations :
            /\ Cardinality({i \in DOMAIN sink.members : sink.members[i].hash = h}) = 1
            /\ Cardinality({i \in DOMAIN plan.new_files : plan.new_files[i][2] = h}) = 1
            /\ h \in FileEntryHashes(plan)

\* C7: the location write_plan returns for a hash is the offset recorded at
\* the first write of that hash.
C7_FirstWriteWins ==
    pc = "written" =>
        \A h \in DOMAIN blob_locations :
            LET first == CHOOSE i \in DOMAIN sink.members :
                            /\ sink.members[i].hash = h
                            /\ \A j \in 1..(i - 1) : sink.members[j].hash # h
            IN blob_locations[h].offset = sink.members[first].rec

\* C8: no step changes or removes a committed blobs row, and no hash is
\* inserted twice over the catalog's lifetime.
C8_BlobRowsStable ==
    [][/\ \A h \in DOMAIN blobs : h \in DOMAIN blobs' /\ blobs'[h] = blobs[h]
       /\ \A i, j \in DOMAIN blob_log' :
            blob_log'[i].hash = blob_log'[j].hash => i = j]_vars

\* a run has committed new rows into a catalog that already had some
C8_Witness == result = "ok" /\ pre.blobs # <<>> /\ blobs # pre.blobs

\* bytes a blob takes on the tape by the writer's accounting
Extent(row) == BlockSize + Pad(row.size)

\* C9: rows of one tape_id do not overlap, and a row inserted later has a
\* strictly greater offset than every row inserted before it.
C9_OffsetsAppendOnly ==
    \A i, j \in DOMAIN blob_log :
        (i < j /\ blob_log[i].tape_id = blob_log[j].tape_id) =>
            /\ blob_log[i].offset < blob_log[j].offset
            /\ blob_log[i].offset + Extent(blob_log[i]) <= blob_log[j].offset

\* C10: the offset recorded for a blob is the number of bytes the sink had
\* received before the first byte of that blob's own tar header.
C10_OffsetIsHeaderStart ==
    pc = "written" =>
        \A i \in DOMAIN sink.members : sink.members[i].rec = sink.members[i].hdr

\* the least number of 512-byte blocks that hold n bytes
CeilBlocks(n) ==
    CHOOSE k \in 0..((n \div 512) + 1) :
        k * 512 >= n /\ (k = 0 \/ (k - 1) * 512 < n)

\* C11: write_plan appends the blobs in the order of plan.new_files; the
\* first one is recorded at the writer's current_offset and each next one at
\* the previous offset + 512 + ceil(previous size / 512) * 512, so the
\* recorded offsets rise strictly in plan order and a blob of size 0 moves
\* the offset on by exactly 512.
C11_OffsetChain ==
    [][(pc = "writer" /\ pc' = "written") =>
         LET m == sink'.members
             nf == plan.new_files
         IN /\ Len(m) = Len(nf)
            /\ \A i \in 1..Len(m) : m[i].path = nf[i][1] /\ m[i].hash = nf[i][2]
            /\ m[1].rec = tw.current_offset
            /\ \A i \in 1..(Len(m) - 1) :
                  /\ m[i + 1].rec = m[i].rec + 512 + CeilBlocks(m[i].size) * 512
                  /\ m[i + 1].rec > m[i].rec
                  /\ (m[i].size = 0) => (m[i + 1].rec = m[i].rec + 512)
            /\ tw'.current_offset =
                  m[Len(m)].rec + 512 + CeilBlocks(m[Len(m)].size) * 512]_vars

C11_Witness ==
    /\ pc = "written"
    /\ Len(sink.members) = 2
    /\ sink.members[1].size = 0
    /\ sink.members[2].size = 513
    /\ sink.members[2].rec = sink.members[1].rec + 512
    /\ tw.current_offset = 512 + 512 + 1024

\* the index (as it was when the run started) holds a row for p with exactly
\* the (mtime, size) the Planner read from the file
IndexMatches(p) ==
    /\ PathKey(p) \in DOMAIN pre.index
    /\ pre.index[PathKey(p)].mtime = plan.probes[p].mtime
    /\ pre.index[PathKey(p)].size = plan.probes[p].size

\* the hash the Planner put in the tree entry of file p
TreeHashOfFile(p) ==
    {plan.trees[Parent(p)][i].hash :
        i \in {j \in DOMAIN plan.trees[Parent(p)] :
                  /\ plan.trees[Parent(p)][j].name = FileName(p)
                  /\ plan.trees[Parent(p)][j].mode = FileMode}}

\* C12: a file whose path has an index row with exactly the file's current
\* (mtime, size) gets its hash from that row, and Pipeline::run never opens
\* or reads the file.
C12_FastPathNoRead ==
    \A p \in DOMAIN plan.probes :
        IndexMatches(p) =>
            /\ ~plan.probes[p].read
            /\ plan.ok => TreeHashOfFile(p) = {pre.index[PathKey(p)].hash}

\* the fast path was taken for a file whose bytes no longer hash to the row
C12_Witness ==
    /\ plan.ok
    /\ \E p \in DOMAIN plan.probes :
          /\ IndexMatches(p)
          /\ ~plan.probes[p].read
          /\ pre.index[PathKey(p)].hash # HashBytes(plan.probes[p].content)

\* the (mtime, size) pairs check_index is asked about
ProbeTimes == 0..(MaxTime + 1)
ProbeSizes == {SizeOf(c) : c \in Contents} \cup {1, 512}

\* C13: check_index(path, mtime, size) returns Some(h) exactly when the index
\* has a row for the path whose mtime and size both equal the arguments, h
\* being that row's hash; with no row, or with either field different by any
\* amount, it returns None.
C13_CheckIndexExact ==
    /\ \A p \in Files, mt \in ProbeTimes, sz \in ProbeSizes :
          LET k == PathKey(p)
              ans == CheckIndex(index, p, mt, sz)
          IN IF k \in DOMAIN index /\ index[k].mtime = mt /\ index[k].size = sz
             THEN ans = index[k].hash /\ ans # NoHash
             ELSE ans = NoHash
    /\ \A p \in DOMAIN plan.probes :
          IF IndexMatches(p)
          THEN plan.probes[p].hit = pre.index[PathKey(p)].hash
          ELSE plan.probes[p].hit = NoHash

\* one run of the Planner got Some(h) for one file and None for another
\* whose row differs in the mtime alone
C13_Witness ==
    /\ \E p \in DOMAIN plan.probes :
          /\ PathKey(p) \in DOMAIN pre.index
          /\ pre.index[PathKey(p)].size = plan.probes[p].size
          /\ pre.index[PathKey(p)].mtime # plan.probes[p].mtime
          /\ plan.probes[p].hit = NoHash
    /\ \E p \in DOMAIN plan.probes :
          /\ IndexMatches(p)
          /\ plan.probes[p].hit = pre.index[PathKey(p)].hash

\* C14: a run that follows a committed run, the only change in between
\* being that one file's mtime was bumped with its content unchanged, leaves
\* the index row of that path holding the new mtime.
C14_TouchRefreshesIndex ==
    (since.kind = "touch" /\ pc = "idle" /\ result \in {"ok", "nothing"} /\ quiet)
        => /\ PathKey(since.path) \in DOMAIN index
           /\ index[PathKey(since.path)].mtime = fs[since.path].mtime

\* the Planner met file p with an index row of another mtime, its content
\* being the one the row's hash stands for, and that blob is in blobs
TouchedKnownBlob(p) ==
    /\ PathKey(p) \in DOMAIN pre.index
    /\ pre.index[PathKey(p)].mtime # plan.probes[p].mtime
    /\ pre.index[PathKey(p)].hash = HashBytes(plan.probes[p].content)
    /\ HashBytes(plan.probes[p].content) \in DOMAIN pre.blobs

\* C15: a file whose mtime changed but whose content did not, its blob being
\* in blobs already, is rehashed by the next run (index miss), is not added
\* to new_files, gets no tape data and no blobs row.
C15_TouchedFileDeduped ==
    \A p \in DOMAIN plan.probes :
        (plan.ok /\ TouchedKnownBlob(p)) =>
            LET h == HashBytes(plan.probes[p].content) IN
            /\ plan.probes[p].hit = NoHash
            /\ plan.probes[p].read
            /\ TreeHashOfFile(p) = {h}
            /\ \A i \in DOMAIN plan.new_files :
                  plan.new_files[i][1] # p /\ plan.new_files[i][2] # h
            /\ \A i \in DOMAIN sink.members :
                  sink.members[i].path # p /\ sink.members[i].hash # h
            /\ h \notin DOMAIN blob_locations
            /\ h \in DOMAIN blobs /\ blobs[h] = pre.blobs[h]
            /\ txn.open => txn.blobs[h] = pre.blobs[h]

\* a run met such a file, rehashed it and ended with nothing to back up
C15_Witness ==
    /\ pc = "idle"
    /\ result = "nothing"
    /\ \E p \in DOMAIN plan.probes :
          plan.ok /\ TouchedKnownBlob(p) /\ plan.probes[p].read

RECURSIVE SumSizes(_, _)
\* the sizes of the files of S in tree f, added up
SumSizes(f, S) ==
    IF S = {} THEN 0
    ELSE LET p == CHOOSE q \in S : TRUE
         IN SizeOf(f[p].content) + SumSizes(f, S \ {p})

\* the regular files under the root
RegularFiles(f) == {p \in AllFiles : Present(f, p)}

\* the run started on an empty catalog over a tree of readable files with
\* pairwise distinct contents, and the tree is as it was then
FreshRun ==
    /\ plan.ok
    /\ pre.blobs = <<>> /\ pre.index = <<>>
    /\ quiet
    /\ \A p \in RegularFiles(fs) : fs[p].perm = "ok"
    /\ \A p, q \in RegularFiles(fs) : p # q => fs[p].content # fs[q].content

\* C16: on an empty catalog, over a tree of regular files with pairwise
\* distinct contents, the plan's new_files holds exactly one entry per regular
\* file under the root, in every subdirectory, and total_size is the sum of
\* their sizes; after the commit the catalog has one blobs row and one index
\* row per such file.
C16_FreshRunTakesEveryFile ==
    FreshRun =>
        /\ {plan.new_files[i][1] : i \in DOMAIN plan.new_files} = RegularFiles(fs)
        /\ Len(plan.new_files) = Cardinality(RegularFiles(fs))
        /\ plan.total_size = SumSizes(fs, RegularFiles(fs))
        /\ (pc = "idle" /\ result = "ok") =>
              /\ DOMAIN blobs = {HashBytes(fs[p].content) : p \in RegularFiles(fs)}
              /\ Cardinality(DOMAIN blobs) = Cardinality(RegularFiles(fs))
              /\ DOMAIN index = {PathKey(p) : p \in RegularFiles(fs)}

\* C17: when the process is killed at any point before the commit completes,
\* every later reader sees the catalog as it was before the run; the tables
\* a reader sees change only at a commit, and then to all of the run's puts
\* at once, never to a part of them.
C17_KillLeavesCatalog ==
    /\ []((pc # "idle" \/ result \in {"killed", "killed_with_puts"})
            => CatalogAsBefore)
    /\ [][(blobs' # blobs \/ index' # index) =>
             /\ pc = "txn" /\ result' = "ok"
             /\ todo = {} /\ next_idx > Len(plan.new_files)
             /\ blobs' = txn.blobs /\ index' = txn.index]_vars

\* a run was killed after puts of both tables, and its catalog is the old one
C17_Witness ==
    /\ result = "killed_with_puts"
    /\ pc = "idle"
    /\ CatalogAsBefore
    /\ runs >= 2
    /\ DOMAIN blobs # {}

\* the ScannedEntry the callback builds for an Ok child
EntryOf(c) == [name |-> c.name, is_dir |-> c.is_dir, path |-> c.path]

C19_SameRootTwice ==
    [][(pc = "idle" /\ runs' = runs + 1 /\ quiet /\ plan.ok /\ plan'.ok) =>
         /\ Root \in DOMAIN plan.tree_hashes
         /\ Root \in DOMAIN plan'.tree_hashes
         /\ plan'.tree_hashes[Root] = plan.tree_hashes[Root]]_vars

\* the second run ever took every file's hash from the index the first run,
\* which had to hash them all, committed
C19_Witness ==
    /\ runs = 2
    /\ r2
    /\ plan.ok
    /\ DOMAIN plan.probes = Files
    /\ \A p \in DOMAIN plan.probes : ~plan.probes[p].read
    /\ Root \in DOMAIN plan.tree_hashes

RECURSIVE SortByName(_)
\* the entries of a set in ascending order of name
SortByName(S) ==
    IF S = {} THEN <<>>
    ELSE LET m == CHOOSE e \in S : \A o \in S : NameRank(e.name) <= NameRank(o.name)
         IN <<m>> \o SortByName(S \ {m})

\* the orders in which the entries of a set can be produced
ProductionOrders(S) ==
    {q \in [1..Cardinality(S) -> S] : \A e \in S : \E i \in DOMAIN q : q[i] = e}

\* the entries the Planner emitted for directory d
Emitted(d) == {plan.trees[d][i] : i \in DOMAIN plan.trees[d]}

\* C20: the tree hash of a directory is the digest of the identity hashes of
\* its emitted entries, concatenated in ascending order of name; it depends
\* on the set of entries only, not on the order they were produced in, and a
\* directory with no entries gets the digest of the empty byte string.
C20_TreeHashOfEntrySet ==
    \A d \in DOMAIN plan.tree_hashes :
        LET asc == SortByName(Emitted(d)) IN
        /\ Len(plan.trees[d]) = Cardinality(Emitted(d))
        /\ plan.tree_hashes[d] = <<"tree", [i \in DOMAIN asc |-> EntryHash(asc[i])]>>
        /\ \A q \in ProductionOrders(Emitted(d)) : TreeHashOf(q) = plan.tree_hashes[d]
        /\ (Emitted(d) = {}) => (plan.tree_hashes[d] = <<"tree", <<>>>>)

\* a plan whose root has a file and two directories, one of them empty
C20_Witness ==
    /\ plan.ok
    /\ Root \in DOMAIN plan.tree_hashes
    /\ Cardinality(Emitted(Root)) = 3
    /\ Emitted(<<"r", "d">>) # {}
    /\ Emitted(<<"r", "e">>) = {}
    /\ plan.tree_hashes[<<"r", "e">>] = <<"tree", <<>>>>

\* stat of p fails in the tree as it is
StatFails(p) == Present(fs, p) /\ fs[p].perm = "nostat"

\* the Planner can get a hash for q: from the index, or by reading the file
Hashable(q) ==
    /\ Present(fs, q) /\ fs[q].perm # "nostat"
    /\ \/ fs[q].perm = "ok"
       \/ CheckIndex(pre.index, q, fs[q].mtime, SizeOf(fs[q].content)) # NoHash

\* C21: a file whose stat fails during planning is left out of its parent's
\* tree entries and of new_files and adds nothing to total_size, and the run
\* goes on: every other file, of that directory and of the others, is still
\* classified and the plan is returned.
C21_StatFailureSkipsFile ==
    (quiet /\ runs >= 1) =>
        \A p \in Files :
            StatFails(p) =>
                /\ p \notin DOMAIN plan.probes
                /\ \A i \in DOMAIN plan.new_files : plan.new_files[i][1] # p
                /\ plan.ok => TreeHashOfFile(p) = {}
                /\ plan.total_size =
                     SumSizes(fs, {plan.new_files[i][1] : i \in DOMAIN plan.new_files})
                /\ (\A q \in Files : (Present(fs, q) /\ ~StatFails(q)) => Hashable(q))
                     => /\ plan.ok
                        /\ \A q \in Files :
                              (Present(fs, q) /\ ~StatFails(q)) =>
                                  /\ q \in DOMAIN plan.probes
                                  /\ TreeHashOfFile(q) # {}

\* a run skipped a file it could not stat and planned the other file
C21_Witness ==
    /\ quiet /\ plan.ok
    /\ \E p, q \in Files :
          /\ StatFails(p)
          /\ p \notin DOMAIN plan.probes
          /\ \E i \in DOMAIN plan.new_files : plan.new_files[i][1] = q
          /\ plan.total_size = SizeOf(fs[q].content)
          /\ plan.total_size > 0

\* the Planner tried to open p for hashing and the open (perm "noopen") or
\* the read (perm "noread") failed; the tree is as the Planner saw it
HashFailed(p, perm) ==
    /\ quiet
    /\ p \in DOMAIN plan.probes
    /\ plan.probes[p].read
    /\ fs[p].perm = perm

\* C22: when a file can be stat-ed but not opened for hashing, the error is
\* logged, the file is dropped from its parent's tree and the run goes on to
\* a plan that covers the remaining files.
C22_OpenFailureSkipsFile ==
    \A p \in Files :
        (HashFailed(p, "noopen")
           /\ \A q \in Files \ {p} : Present(fs, q) => Hashable(q))
        => /\ plan.ok
           /\ result # "HASH_IO"
           /\ TreeHashOfFile(p) = {}
           /\ \A q \in Files \ {p} : Present(fs, q) => TreeHashOfFile(q) # {}

\* C23: when reading a file's bytes for hashing fails, Pipeline::run returns
\* an error and no BackupPlan: no plan of the files processed before the
\* failure comes back, and the run writes nothing to the tape or the catalog.
C23_ReadFailureNoPlan ==
    \A p \in Files :
        HashFailed(p, "noread") =>
            /\ ~plan.ok
            /\ plan.new_files = <<>> /\ plan.trees = <<>>
            /\ pc = "idle" /\ result = "HASH_IO"
            /\ tw = NoWriter /\ sink = EmptySink /\ blob_locations = <<>>
            /\ ~txn.open
            /\ CatalogAsBefore

\* the read failed after another file had been hashed and found new
C23_Witness ==
    /\ result = "HASH_IO"
    /\ \E p, q \in Files :
          /\ p # q
          /\ HashFailed(p, "noread")
          /\ q \in DOMAIN plan.probes
          /\ plan.probes[q].read
          /\ fs[q].perm = "ok"
          /\ HashBytes(fs[q].content) \notin DOMAIN blobs

\* C27: after a run has committed, the index has for every (path, hash) of
\* new_files a row for that path with that hash and with the (mtime, size) of
\* the re-stat done at the commit, also when the re-stat of a path fails.
C27_IndexRowPerNewFile ==
    (pc = "idle" /\ result = "ok") =>
        \A i \in DOMAIN plan.new_files :
            LET path == plan.new_files[i][1]
                hash == plan.new_files[i][2]
            IN /\ PathKey(path) \in DOMAIN index
               /\ index[PathKey(path)].hash = hash
               /\ (quiet /\ Metadata(fs, path).ok) =>
                     /\ index[PathKey(path)].mtime = Metadata(fs, path).mtime
                     /\ index[PathKey(path)].size = Metadata(fs, path).size

\* the committed insert_blob calls made for hash h, as positions of blob_log
PutsOf(h) == {i \in DOMAIN blob_log : blob_log[i].hash = h}

\* C28: insert_blob(hash, location) inside a write transaction followed by
\* commit makes get_blob(hash) return exactly that location; get_blob of a
\* hash that was never inserted returns None.
C28_GetBlobAfterInsert ==
    \A c \in Contents :
        LET h == HashBytes(c) IN
        IF PutsOf(h) = {}
        THEN GetBlob(blobs, h) = NoLocation
        ELSE LET last == CHOOSE i \in PutsOf(h) : \A j \in PutsOf(h) : j <= i
             IN GetBlob(blobs, h) = [tape_id |-> blob_log[last].tape_id,
                                     offset |-> blob_log[last].offset]

\* a commit made one blob readable at an offset past the first member, and
\* another hash has never been inserted
C28_Witness ==
    /\ result = "ok"
    /\ \E c \in Contents : PutsOf(HashBytes(c)) = {}
    /\ \E c \in Contents :
          /\ PutsOf(HashBytes(c)) # {}
          /\ GetBlob(blobs, HashBytes(c)).offset > 0

\* C24: when read_dir fails on the source root, Pipeline::run returns an
\* error and the run ends with a failure: it does not go on with a plan
\* built from what was received, and does not report "nothing to back up".
C24_RootErrorFatal ==
    (ppc = "done" /\ Root \in failed) =>
        /\ pc = "idle"
        /\ result \notin {"nothing", "running", "ok"}

\* the largest capacity this tree can tell from no capacity at all: with one
\* message per directory, a bound of Cardinality(Dirs) or more is never met
ChannelCapacity == Cardinality(Dirs) - 1

\* C25: the channel from the Scanner to the Planner is bounded: the
\* ScannedDirs sent and not yet received never outnumber its capacity (a
\* send on a full channel waits for the Planner to receive).
C25_ChannelBounded == Len(chan) <= ChannelCapacity

RECURSIVE Readable(_)
\* the walk can read directory d: read_dir failed neither on d nor on any
\* directory above it
Readable(d) == d \notin failed /\ (d = Root \/ Readable(Parent(d)))

\* the sends made for directory d, as positions of sent
SendsOf(d) == {k \in DOMAIN sent : sent[k].path = d}

Below(a, b) == Len(b) > Len(a) /\ SubSeq(b, 1, Len(a)) = a

\* the directories `for path in paths` has been through
Processed == {i \in DOMAIN paths : i < path_i}

\* C29: with the paths in descending length, whatever the order among paths
\* of one length, a directory is processed only after every scanned
\* directory below it, so each directory entry whose directory was scanned
\* finds its tree hash in tree_hashes and goes into the parent's tree with it.
C29_LeavesBeforeAncestors ==
    (ppc # "recv" /\ plan.ok) =>
        \A i \in Processed :
            /\ \A j \in DOMAIN paths : Below(paths[i], paths[j]) => j < i
            /\ \A k \in DOMAIN dir_map[paths[i]].entries :
                  LET e == dir_map[paths[i]].entries[k] IN
                  (e.is_dir /\ e.path \in DOMAIN dir_map) =>
                      /\ e.path \in DOMAIN plan.tree_hashes
                      /\ \E n \in DOMAIN plan.trees[paths[i]] :
                            plan.trees[paths[i]][n] =
                                [name |-> e.name, mode |-> DirMode,
                                 hash |-> plan.tree_hashes[e.path]]

\* the root has been processed after its two scanned subdirectories, which
\* came in the order e, d
C29_Witness ==
    /\ ppc = "done"
    /\ paths = <<<<"r", "e">>, <<"r", "d">>, <<"r">>>>
    /\ Len(plan.trees[Root]) >= 2

\* C30: a directory entry whose directory was never sent by the Scanner
\* (its path is not in tree_hashes when looked up) still gets a TreeEntry in
\* its parent's tree, with mode 0o040755 and the hash of the empty tree.
C30_MissingSubtreeAsEmpty ==
    (ppc # "recv" /\ plan.ok) =>
        \A i \in Processed :
            \A k \in DOMAIN dir_map[paths[i]].entries :
                LET e == dir_map[paths[i]].entries[k] IN
                (e.is_dir /\ e.path \notin DOMAIN dir_map) =>
                    \E n \in DOMAIN plan.trees[paths[i]] :
                        plan.trees[paths[i]][n] =
                            [name |-> e.name, mode |-> DirMode,
                             hash |-> TreeHashOf(<<>>)]

\* C31: after a successful run, the tree not having changed during it, the
\* index holds a row for every file path the Planner observed and classified
\* in that run, the files kept out of new_files because their hash was in
\* blobs already included.
C31_IndexRowPerObservedFile ==
    (pc = "idle" /\ result \in {"ok", "nothing"} /\ quiet) =>
        \A p \in DOMAIN plan.probes : PathKey(p) \in DOMAIN index

\* the index rows a step puts into the open transaction
RowsPut == {k \in DOMAIN txn'.index :
               k \notin DOMAIN txn.index \/ txn'.index[k] # txn.index[k]}

\* C32: every index row is written with the hash of the content the file
\* held when the (mtime, size) of the row were read, also when the file was
\* modified after the Planner hashed it; a later hit of check_index on that
\* (mtime, size) then gives the hash of that content and no older one.
C32_IndexHashOfStattedContent ==
    [][(txn.open /\ txn'.open) =>
          \A p \in Files :
              PathKey(p) \in RowsPut =>
                  txn'.index[PathKey(p)].hash = HashBytes(fs[p].content)]_vars

\* C33: the bytes write_plan puts on tape for an entry (path, hash) of the
\* plan hash to hash, also when the source file was modified, truncated or
\* replaced after Pipeline::run hashed it.
C33_TapeBytesHashToHash ==
    \A i \in DOMAIN sink.members :
        sink.members[i].hash = HashBytes(sink.members[i].content)

\* C34: with the process sink, once the child is spawned write_plan followed
\* by finish eventually returns, the child reading its stdin until EOF and
\* then exiting, whatever amount of output the child writes to its stdout
\* and stderr.
C34_FinishReturns == (tpc = "write_plan") ~> (tpc = "returned")
====
